---- MODULE Spec2Model ----
(***************************************************************************)
(* A model of the edge-removal core of filtration_domination: the grade    *)
(* algebra (src/src/lib.rs), filtered edges and edge lists                 *)
(* (src/src/edges.rs), the adjacency index (src/src/removal/adjacency.rs), *)
(* the strong test (src/src/removal/strong/mod.rs), the stripes and the    *)
(* non-domination regions of the full test (src/src/removal/full/) and the *)
(* two timed removal drivers, driven by a caller that calls them, feeds a  *)
(* result back in (experiment/src/experiments/multiple_iterations.rs) or   *)
(* shuffles its list (EdgeList::shuffle) and calls again.                  *)
(***************************************************************************)
EXTENDS Integers, Sequences, FiniteSets, TLC

VARIABLES
    input,             \* the edge list the caller started with (never changed)
    edge_list,         \* the caller's list, handed to the driver as &mut
    mode,              \* "strong" | "full": which driver runs
    order,             \* EdgeOrder: "ReverseLexicographic" | "Maintain"
    max_time,          \* Option<Duration>: None or a budget
    pc,                \* "idle" | "loop" | "done": where the driver stands
    idx,               \* the position of the outer loop in edge_list (1-based)
    adjacency_matrix,  \* AdjacencyMatrix.matrix: vertex -> (neighbour -> grade)
    remaining_edges,   \* the survivors pushed so far
    elapsed,           \* the last reading of start.elapsed()
    result,            \* the returned EdgeList (None before the return)
    last,              \* what the last loop iteration did, and on which index
    arg,               \* the list as it was handed to the running call
    decisions,         \* the verdicts of the running call, in iteration order
    calls,             \* the finished calls, in order
    link,              \* how the caller prepared the list of the running call
    stripe_list,       \* a Vec<Stripe> under construction
    stripes_built,     \* the Stripes built from it (None before Stripes::new)
    point,             \* the last point handed to Stripes::contains_point
    contained,         \* what contains_point returned for it
    operands,          \* the arguments of a function applied on its own
    outcome,           \* what that function returned (None before the call)
    tested_edge,       \* the edge handed to is_filtration_dominated_multithread
    tasks,             \* the items of the running parallel iterator and their state
    full,              \* the flag by which the parallel iterator stops early
    non_domination_regions,  \* the regions collected so far, in arrival order
    verdict            \* what the parallel test returned (None before the return)

driver_vars == << input, edge_list, mode, order, max_time, pc, idx, adjacency_matrix,
                  remaining_edges, elapsed, result, last, arg, decisions, calls, link >>

stripes_vars == << stripe_list, stripes_built, point, contained >>

pure_vars == << operands, outcome >>

par_vars == << tested_edge, tasks, full, non_domination_regions, verdict >>

unit_vars == << stripes_vars, pure_vars, par_vars >>

vars == << driver_vars, unit_vars >>

None == << >>
Some(x) == << x >>

(***************************************************************************)
(* Bounds of the model.                                                    *)
(***************************************************************************)
\* The largest value of the value type V (V::max_value()); values are 0..VMax.
VMax == 5
\* The largest budget a caller passes; the clock reads 0..MaxBudget+1.
MaxBudget == 1
\* How many edges of a catalogue graph the caller may leave out.
MaxDrop == 1
\* How many vertices beyond the largest endpoint an input list may declare.
MaxSlack == 1

Value == 0 .. VMax
Grades == Value \X Value

(***************************************************************************)
(* Grade algebra: OneCriticalGrade<VF, 2>.                                 *)
(***************************************************************************)
Max2(a, b) == IF a >= b THEN a ELSE b
Min2(a, b) == IF a <= b THEN a ELSE b

max_value == << VMax, VMax >>

\* Variant: only the first component is raised.
join_first(a, b) == << Max2(a[1], b[1]), a[2] >>

join(a, b) == << Max2(a[1], b[1]), Max2(a[2], b[2]) >>

lte(a, b) == ~(a[1] > b[1]) /\ ~(a[2] > b[2])

\* The derived Ord of OneCriticalGrade: lexicographic on the array.
grade_cmp(a, b) ==
    IF a[1] < b[1] THEN "Less"
    ELSE IF a[1] > b[1] THEN "Greater"
    ELSE IF a[2] < b[2] THEN "Less"
    ELSE IF a[2] > b[2] THEN "Greater"
    ELSE "Equal"

(***************************************************************************)
(* Edges.  A FilteredEdge is [grade |-> <<g0, g1>>, edge |-> <<u, v>>],    *)
(* the pair being BareEdge(u, v) with its endpoints in the order given.    *)
(***************************************************************************)
FilteredEdge(g, u, v) == [grade |-> g, edge |-> << u, v >>]

minmax(e) == << Min2(e.edge[1], e.edge[2]), Max2(e.edge[1], e.edge[2]) >>

bare_cmp(a, b) ==
    LET p == minmax(a)
        q == minmax(b)
    IN  IF p[1] < q[1] THEN "Less"
        ELSE IF p[1] > q[1] THEN "Greater"
        ELSE IF p[2] < q[2] THEN "Less"
        ELSE IF p[2] > q[2] THEN "Greater"
        ELSE "Equal"

\* impl Ord for FilteredEdge: grades first, ties by the unordered pair.
edge_cmp(a, b) ==
    IF grade_cmp(a.grade, b.grade) = "Equal" THEN bare_cmp(a, b)
    ELSE grade_cmp(a.grade, b.grade)

RECURSIVE count_vertices(_)
count_vertices(edges) ==
    IF edges = << >> THEN 0
    ELSE Max2(count_vertices(Tail(edges)), minmax(Head(edges))[2] + 1)

\* impl From<Vec<E>> for EdgeList<E>.
EdgeListFrom(edges) == [n_vertices |-> count_vertices(edges), edges |-> edges]

RemoveAt(s, i) == SubSeq(s, 1, i - 1) \o SubSeq(s, i + 1, Len(s))

\* Variant: the list is left in the order it came in.
keep_order(s) == { s }

\* Variant: a sort by grade only, the endpoints not breaking ties.
RECURSIVE sort_by_grade_rev(_)
sort_by_grade_rev(s) ==
    IF s = << >> THEN { << >> }
    ELSE LET top == { i \in 1 .. Len(s) :
                        \A j \in 1 .. Len(s) : grade_cmp(s[j].grade, s[i].grade) # "Greater" }
         IN  UNION { { << s[i] >> \o t : t \in sort_by_grade_rev(RemoveAt(s, i)) }
                     : i \in top }

\* Variant: a sort that also merges neighbours comparing Equal (a dedup).
RECURSIVE sort_rev_dedup(_)
sort_rev_dedup(s) ==
    IF s = << >> THEN { << >> }
    ELSE LET top == { i \in 1 .. Len(s) :
                        \A j \in 1 .. Len(s) : edge_cmp(s[j], s[i]) # "Greater" }
             rest(i) == SelectSeq(s, LAMBDA x : edge_cmp(x, s[i]) # "Equal")
         IN  UNION { { << s[i] >> \o t : t \in sort_rev_dedup(rest(i)) } : i \in top }

\* The outcomes of edges.sort_unstable_by(|a, b| b.cmp(a)): every arrangement
\* that is non-increasing; elements that compare Equal may land in any order.
RECURSIVE sort_unstable_rev(_)
sort_unstable_rev(s) ==
    IF s = << >> THEN { << >> }
    ELSE LET top == { i \in 1 .. Len(s) :
                        \A j \in 1 .. Len(s) : edge_cmp(s[j], s[i]) # "Greater" }
         IN  UNION { { << s[i] >> \o t : t \in sort_unstable_rev(RemoveAt(s, i)) }
                     : i \in top }

(***************************************************************************)
(* Adjacency index: matrix[u] is a LiteMap, a map sorted by key.           *)
(***************************************************************************)
AdjacencyNew(n_vertices) == [u \in 0 .. n_vertices - 1 |-> << >>]

MapInsert(m, k, g) == [x \in DOMAIN m \cup {k} |-> IF x = k THEN g ELSE m[x]]

MapRemove(m, k) == [x \in DOMAIN m \ {k} |-> m[x]]

add_edge(A, e) ==
    LET u  == e.edge[1]
        v  == e.edge[2]
        A1 == [A EXCEPT ![u] = MapInsert(A[u], v, e.grade)]
    IN  [A1 EXCEPT ![v] = MapInsert(A1[v], u, e.grade)]

\* Variant: the second endpoint is removed from every per-vertex map.
delete_edge_everywhere(A, e) ==
    LET A1 == [w \in DOMAIN A |-> MapRemove(A[w], e.edge[2])]
    IN  [A1 EXCEPT ![e.edge[2]] = MapRemove(A1[e.edge[2]], e.edge[1])]

\* Variant: the edge is removed from the first endpoint's map only.
delete_edge_one_side(A, e) == [A EXCEPT ![e.edge[1]] = MapRemove(A[e.edge[1]], e.edge[2])]

delete_edge(A, e) ==
    LET u  == e.edge[1]
        v  == e.edge[2]
        A1 == [A EXCEPT ![u] = MapRemove(A[u], v)]
    IN  [A1 EXCEPT ![v] = MapRemove(A1[v], u)]

RECURSIVE AddAll(_, _)
AddAll(A, edges) ==
    IF edges = << >> THEN A ELSE AddAll(add_edge(A, Head(edges)), Tail(edges))

SetMin(S) == CHOOSE x \in S : \A y \in S : x <= y

SetMax(S) == CHOOSE x \in S : \A y \in S : y <= x

RECURSIVE Ascending(_)
Ascending(S) ==
    IF S = {} THEN << >> ELSE << SetMin(S) >> \o Ascending(S \ {SetMin(S)})

\* The iteration of a LiteMap: (key, value) in increasing key order.
open_neighbours(A, u) ==
    LET keys == Ascending(DOMAIN A[u])
    IN  [i \in 1 .. Len(keys) |-> << keys[i], A[u][keys[i]] >>]

\* The order of the items (vertex, grade) that sorted_iter's union merges by.
item_cmp(p, q) ==
    IF p[1] < q[1] THEN "Less"
    ELSE IF p[1] > q[1] THEN "Greater"
    ELSE grade_cmp(p[2], q[2])

\* SortedIterator::union: the merge of two sorted streams, equal items once.
RECURSIVE union(_, _)
union(s, t) ==
    IF s = << >> THEN t
    ELSE IF t = << >> THEN s
    ELSE IF item_cmp(Head(s), Head(t)) = "Less" THEN << Head(s) >> \o union(Tail(s), t)
    ELSE IF item_cmp(Head(s), Head(t)) = "Greater" THEN << Head(t) >> \o union(s, Tail(t))
    ELSE << Head(s) >> \o union(Tail(s), Tail(t))

\* Variant: the vertex itself is put behind its neighbours, not merged in.
closed_neighbours_appended(A, u, u_value) ==
    open_neighbours(A, u) \o << << u, u_value >> >>

closed_neighbours(A, u, u_value) == union(open_neighbours(A, u), << << u, u_value >> >>)

\* SortedPairIterator::join: the keys both streams hold, with both values.
RECURSIVE pair_join(_, _)
pair_join(s, t) ==
    IF s = << >> \/ t = << >> THEN << >>
    ELSE IF Head(s)[1] < Head(t)[1] THEN pair_join(Tail(s), t)
    ELSE IF Head(s)[1] > Head(t)[1] THEN pair_join(s, Tail(t))
    ELSE << << Head(s)[1], << Head(s)[2], Head(t)[2] >> >> >> \o pair_join(Tail(s), Tail(t))

\* Variant: the join runs over the closed neighbourhoods of the endpoints.
common_neighbours_raw_closed(A, e) ==
    pair_join(closed_neighbours(A, e.edge[1], e.grade),
              closed_neighbours(A, e.edge[2], e.grade))

common_neighbours_raw(A, e) ==
    pair_join(open_neighbours(A, e.edge[1]), open_neighbours(A, e.edge[2]))

common_neighbours(A, e) ==
    LET raw == common_neighbours_raw(A, e)
    IN  [i \in 1 .. Len(raw) |-> << raw[i][1], join(raw[i][2][1], raw[i][2][2]) >>]

\* Variant: the common neighbours keep their grade, not joined with the edge's.
closed_neighbours_edge_unjoined(A, e) ==
    union(union(common_neighbours(A, e), << << e.edge[1], e.grade >> >>),
          << << e.edge[2], e.grade >> >>)

closed_neighbours_edge(A, e) ==
    LET cn     == common_neighbours(A, e)
        mapped == [i \in 1 .. Len(cn) |-> << cn[i][1], join(cn[i][2], e.grade) >>]
    IN  union(union(mapped, << << e.edge[1], e.grade >> >>),
              << << e.edge[2], e.grade >> >>)

(***************************************************************************)
(* Strong test (src/src/removal/strong/mod.rs).                            *)
(***************************************************************************)
\* Variant: inclusion of the vertices, the grades not compared.
is_subset_of_vertices(left, right) ==
    \A i \in 1 .. Len(left) : \E j \in 1 .. Len(right) : right[j][1] = left[i][1]

\* is_subset: left is walked once and right is consumed as the walk goes; an
\* item of right that was taken is never looked at again.
RECURSIVE is_subset(_, _)
is_subset(left, right) ==
    IF left = << >> THEN TRUE
    ELSE IF right = << >> THEN FALSE
    ELSE LET a == Head(left)
             b == Head(right)
         IN  IF a[1] < b[1] THEN FALSE
             ELSE IF a[1] = b[1]
                  THEN IF lte(b[2], a[2]) THEN is_subset(Tail(left), Tail(right))
                       ELSE FALSE
             ELSE is_subset(left, Tail(right))

is_strongly_filtration_dominated(A, e) ==
    LET cn == common_neighbours(A, e)
    IN  \E i \in 1 .. Len(cn) :
            is_subset(closed_neighbours_edge(A, e),
                      closed_neighbours(A, cn[i][1], join(cn[i][2], e.grade)))

(***************************************************************************)
(* Stripes (src/src/removal/full/stripes.rs).  A stripe is <<<<a, b>>, v>>.*)
(***************************************************************************)
Delimiter(kind, e, v) == [kind |-> kind, e |-> e, v |-> v]

\* Delimiter::to_tuple and the tuple order: (endpoint, value, is_start), so at
\* the same endpoint and value an End (false) sorts before a Start (true).
delimiter_less(a, b) ==
    \/ a.e < b.e
    \/ a.e = b.e /\ a.v < b.v
    \/ a.e = b.e /\ a.v = b.v /\ a.kind = "End" /\ b.kind = "Start"

RECURSIVE InsertSorted(_, _)
InsertSorted(s, d) ==
    IF s = << >> THEN << d >>
    ELSE IF delimiter_less(d, Head(s)) THEN << d >> \o s
    ELSE << Head(s) >> \o InsertSorted(Tail(s), d)

\* delimiters.sort_unstable(): delimiters that compare equal are identical.
RECURSIVE sort_delimiters(_)
sort_delimiters(s) ==
    IF s = << >> THEN << >> ELSE InsertSorted(sort_delimiters(Tail(s)), Head(s))

RECURSIVE delimiters_of(_)
delimiters_of(stripes) ==
    IF stripes = << >> THEN << >>
    ELSE LET st == Head(stripes)
         IN  << Delimiter("Start", st[1][1], st[2]), Delimiter("End", st[1][2], st[2]) >>
                 \o delimiters_of(Tail(stripes))

\* ActiveValues: values maps an active value to its count; indexing a value
\* that is not active (self.values[&v]) panics.
ActiveValuesNew == [values |-> << >>, panicked |-> FALSE]

add_delimiter(active, delim) ==
    IF active.panicked THEN active
    ELSE IF delim.kind = "Start"
         THEN [active EXCEPT !.values =
                  MapInsert(@, delim.v,
                            (IF delim.v \in DOMAIN @ THEN @[delim.v] ELSE 0) + 1)]
    ELSE IF delim.v \notin DOMAIN active.values
         THEN [active EXCEPT !.panicked = TRUE]
    ELSE IF active.values[delim.v] = 1
         THEN [active EXCEPT !.values = MapRemove(@, delim.v)]
    ELSE [active EXCEPT !.values = MapInsert(@, delim.v, @[delim.v] - 1)]

active_min(active) ==
    IF DOMAIN active.values = {} THEN VMax ELSE SetMin(DOMAIN active.values)

RECURSIVE AddRun(_, _, _, _)
AddRun(active, delimiters, from, to) ==
    IF from > to THEN active
    ELSE AddRun(add_delimiter(active, delimiters[from]), delimiters, from + 1, to)

\* The sweep of Stripes::new from position i: all delimiters at one endpoint
\* are added, then (endpoint, least active value) is recorded.
RECURSIVE Sweep(_, _, _, _)
Sweep(delimiters, i, active, arranged) ==
    IF i > Len(delimiters) THEN [arranged_stripes |-> arranged, panicked |-> active.panicked]
    ELSE LET endpoint == delimiters[i].e
             to  == CHOOSE k \in i .. Len(delimiters) :
                       /\ \A j \in i .. k : delimiters[j].e = endpoint
                       /\ k = Len(delimiters) \/ delimiters[k + 1].e # endpoint
             act == AddRun(active, delimiters, i, to)
         IN  Sweep(delimiters, to + 1, act,
                   Append(arranged, << endpoint, active_min(act) >>))

StripesNew(stripes) ==
    Sweep(sort_delimiters(delimiters_of(stripes)), 1, ActiveValuesNew, << >>)

\* binary_search_by_key on the arrangement, whose endpoints strictly increase:
\* Ok(pos) where the key is, else Err(pos) with pos the number of smaller keys
\* (positions are 0-based as in the source).
binary_search(arranged, key) ==
    IF \E i \in 1 .. Len(arranged) : arranged[i][1] = key
    THEN [ok |-> TRUE, pos |-> (CHOOSE i \in 1 .. Len(arranged) : arranged[i][1] = key) - 1]
    ELSE [ok |-> FALSE, pos |-> Cardinality({ i \in 1 .. Len(arranged) : arranged[i][1] < key })]

stripes_contains_point(stripes, p) ==
    LET found == binary_search(stripes.arranged_stripes, p[1])
    IN  IF found.ok THEN stripes.arranged_stripes[found.pos + 1][2] <= p[2]
        ELSE IF found.pos = 0 THEN FALSE
        ELSE stripes.arranged_stripes[found.pos][2] <= p[2]

stripes_is_empty(stripes) == stripes.arranged_stripes = << >>

(***************************************************************************)
(* Non-domination regions (src/src/removal/full/regions.rs).               *)
(***************************************************************************)
\* add_pair on the two stripe vectors, kept together as a record.
add_pair(acc, p, q) ==
    LET v1 == IF p[1] # q[1]
              THEN Append(acc.vertical_stripes, << << p[1], q[1] >>, p[2] >>)
              ELSE acc.vertical_stripes
        h1 == IF p[2] # q[2]
              THEN Append(acc.horizontal_stripes, << << p[2], q[2] >>, p[1] >>)
              ELSE acc.horizontal_stripes
    IN  [vertical_stripes |-> v1, horizontal_stripes |-> h1]

\* The merge loop of calculate_non_domination_region over the two peekable
\* streams.
RECURSIVE region_walk(_, _, _)
region_walk(edge_neighs, v_neighs, acc) ==
    IF edge_neighs = << >> THEN acc
    ELSE LET a == Head(edge_neighs)
         IN  IF v_neighs = << >>
             THEN region_walk(Tail(edge_neighs), v_neighs, add_pair(acc, a[2], max_value))
             ELSE LET b == Head(v_neighs)
                  IN  IF a[1] < b[1]
                      THEN region_walk(Tail(edge_neighs), v_neighs,
                                       add_pair(acc, a[2], max_value))
                      ELSE IF a[1] = b[1]
                      THEN region_walk(Tail(edge_neighs), v_neighs,
                                       add_pair(acc, a[2], join(a[2], b[2])))
                      ELSE region_walk(edge_neighs, Tail(v_neighs), acc)

NonDominationRegionNew(vertical_stripes, horizontal_stripes) ==
    [vertical_stripes   |-> StripesNew(vertical_stripes),
     horizontal_stripes |-> StripesNew(horizontal_stripes)]

calculate_non_domination_region(A, e, v, value_v) ==
    LET acc == region_walk(closed_neighbours_edge(A, e),
                           closed_neighbours(A, v, join(value_v, e.grade)),
                           [vertical_stripes |-> << >>, horizontal_stripes |-> << >>])
    IN  NonDominationRegionNew(acc.vertical_stripes, acc.horizontal_stripes)

region_is_empty(region) ==
    stripes_is_empty(region.vertical_stripes) /\ stripes_is_empty(region.horizontal_stripes)

region_contains_point(region, grade) ==
    \/ stripes_contains_point(region.vertical_stripes, << grade[1], grade[2] >>)
    \/ stripes_contains_point(region.horizontal_stripes, << grade[2], grade[1] >>)

(***************************************************************************)
(* Full test (src/src/removal/full/mod.rs).                                *)
(***************************************************************************)
first_domination_times(A, e) ==
    LET cn == common_neighbours(A, e)
    IN  {e.grade} \cup { join(e.grade, cn[i][2]) : i \in 1 .. Len(cn) }

\* Variant: the first domination times are taken as they are, without joins.
domination_times_unclosed(A, e) == first_domination_times(A, e)

domination_times(A, e) ==
    LET F == first_domination_times(A, e) IN { join(t, o) : t \in F, o \in F }

is_filtration_dominated(A, e) ==
    LET cn      == common_neighbours(A, e)
        regions == [i \in 1 .. Len(cn) |->
                       calculate_non_domination_region(A, e, cn[i][1], cn[i][2])]
    IN  IF \E i \in 1 .. Len(cn) : region_is_empty(regions[i]) THEN TRUE
        ELSE \A grade \in domination_times(A, e) :
                 \E i \in 1 .. Len(cn) : ~region_contains_point(regions[i], grade)

(***************************************************************************)
(* The inputs: a catalogue of small bifiltered graphs, each taken whole or *)
(* with up to MaxDrop edges left out, declared with up to MaxSlack         *)
(* vertices more than the largest endpoint needs.                          *)
(***************************************************************************)
\* Spec scenario S1: a triangle at one grade.
Triangle ==
    << FilteredEdge(<< 0, 0 >>, 0, 1), FilteredEdge(<< 0, 0 >>, 0, 2),
       FilteredEdge(<< 0, 0 >>, 1, 2) >>

\* Spec scenario S2: a square with one diagonal, all at one grade.
SquareDiagonal ==
    << FilteredEdge(<< 0, 0 >>, 0, 1), FilteredEdge(<< 0, 0 >>, 1, 2),
       FilteredEdge(<< 0, 0 >>, 2, 3), FilteredEdge(<< 0, 0 >>, 3, 0),
       FilteredEdge(<< 0, 0 >>, 0, 2) >>

\* The graph of strong::tests::strongly_filtration_dominated_happy_case.
StrongHappy ==
    << FilteredEdge(<< 2, 2 >>, 0, 1), FilteredEdge(<< 1, 2 >>, 0, 2),
       FilteredEdge(<< 2, 1 >>, 1, 2), FilteredEdge(<< 4, 3 >>, 0, 3),
       FilteredEdge(<< 3, 4 >>, 1, 3), FilteredEdge(<< 4, 4 >>, 3, 2) >>

\* Four vertices, two grades: a second pass finds more to remove.
TwoPass ==
    << FilteredEdge(<< 0, 0 >>, 0, 2), FilteredEdge(<< 0, 0 >>, 0, 3),
       FilteredEdge(<< 0, 0 >>, 1, 2), FilteredEdge(<< 0, 1 >>, 1, 3),
       FilteredEdge(<< 0, 1 >>, 2, 3) >>

\* Five vertices: the strong and the full run part ways.
Diverge ==
    << FilteredEdge(<< 1, 0 >>, 0, 1), FilteredEdge(<< 0, 2 >>, 0, 2),
       FilteredEdge(<< 0, 2 >>, 0, 3), FilteredEdge(<< 0, 2 >>, 0, 4),
       FilteredEdge(<< 0, 0 >>, 1, 3), FilteredEdge(<< 1, 0 >>, 1, 4),
       FilteredEdge(<< 2, 0 >>, 2, 3), FilteredEdge(<< 0, 2 >>, 2, 4),
       FilteredEdge(<< 1, 0 >>, 3, 4) >>

\* An edge at the largest grade of the value type over a chordless square.
AtMaxValue ==
    << FilteredEdge(max_value, 0, 1), FilteredEdge(<< 0, 0 >>, 0, 2),
       FilteredEdge(<< 0, 0 >>, 1, 2), FilteredEdge(<< 0, 0 >>, 0, 3),
       FilteredEdge(<< 0, 0 >>, 1, 3) >>

\* A triangle in which one pair occurs three times: twice at one grade with
\* its endpoints in both orders, and once more at a larger grade.
Repeated ==
    << FilteredEdge(<< 0, 0 >>, 0, 1), FilteredEdge(<< 0, 0 >>, 1, 0),
       FilteredEdge(<< 1, 0 >>, 0, 1), FilteredEdge(<< 0, 0 >>, 0, 2),
       FilteredEdge(<< 0, 1 >>, 2, 1) >>

Catalogue ==
    { Triangle, SquareDiagonal, StrongHappy, TwoPass, Diverge, AtMaxValue, Repeated }

RECURSIVE Drops(_, _)
Drops(s, k) ==
    IF k = 0 THEN { s }
    ELSE { s } \cup UNION { Drops(RemoveAt(s, i), k - 1) : i \in 1 .. Len(s) }

Inputs ==
    { [n_vertices |-> count_vertices(s) + k, edges |-> s] :
          s \in UNION { Drops(g, MaxDrop) : g \in Catalogue }, k \in 0 .. MaxSlack }

Modes == { "strong", "full" }
Orders == { "ReverseLexicographic", "Maintain" }
Budgets == { None } \cup { Some(t) : t \in 0 .. MaxBudget }
Clock == 0 .. MaxBudget + 1

NoEdge == FilteredEdge(<< 0, 0 >>, 0, 0)
Nothing == [kind |-> "none", edge |-> NoEdge, before |-> << >>, at |-> 0]

\* No Stripes object is in play and no function is applied on its own.
\* No parallel test is running.
ParIdle ==
    /\ tested_edge = None
    /\ tasks = << >>
    /\ full = FALSE
    /\ non_domination_regions = << >>
    /\ verdict = None

StripesIdle ==
    /\ stripe_list = << >>
    /\ stripes_built = None
    /\ point = None
    /\ contained = None
    /\ operands = << >>
    /\ outcome = None
    /\ ParIdle

Init ==
    /\ input \in Inputs
    /\ edge_list = input
    /\ mode = "strong"
    /\ order = "Maintain"
    /\ max_time = None
    /\ pc = "idle"
    /\ idx = 0
    /\ adjacency_matrix = << >>
    /\ remaining_edges = << >>
    /\ elapsed = 0
    /\ result = None
    /\ last = Nothing
    /\ arg = input
    /\ decisions = << >>
    /\ calls = << >>
    /\ link = "first"
    /\ StripesIdle

(***************************************************************************)
(* The timed drivers: remove_strongly_filtration_dominated_timed and       *)
(* remove_filtration_dominated_timed.                                      *)
(***************************************************************************)
\* Variant: each driver runs the other driver's test.
is_dominated_swapped(m, A, e) ==
    IF m = "strong" THEN is_filtration_dominated(A, e)
    ELSE is_strongly_filtration_dominated(A, e)

is_dominated(m, A, e) ==
    IF m = "strong" THEN is_strongly_filtration_dominated(A, e)
    ELSE is_filtration_dominated(A, e)

\* Variant: the survivor is stored with its endpoints as (min, max).
push_normalised(vec, edge) == Append(vec, [edge EXCEPT !.edge = minmax(edge)])

\* Variant: the survivor is stored twice.
push_twice(vec, edge) == Append(Append(vec, edge), edge)

\* Variant: the survivor is stored in front of the earlier ones.
push_front(vec, edge) == << edge >> \o vec

\* remaining_edges.push(*edge).
push(vec, edge) == Append(vec, edge)

\* Variant: on timeout, the survivors collected so far are returned.
clone_survivors(list, survivors) == EdgeListFrom(survivors)

\* return edge_list.clone(): the list as the call holds it, whatever survived.
clone(list, survivors) == list

\* What the call leaves in the log when it returns r.
Finished(r, timed_out) ==
    [mode |-> mode, order |-> order, max_time |-> max_time, link |-> link,
     arg |-> arg, list |-> edge_list, decisions |-> decisions,
     result |-> r, timed_out |-> timed_out]

\* The call, up to the loop: the sort (or not), the index built from the list.
\* The caller's first call may carry a budget; a repeated call is made through
\* the untimed entry point (max_time = None).
Call(m, o, t) ==
    /\ pc = "idle"
    /\ link # "first" => t = None
    /\ \E sorted \in (IF o = "ReverseLexicographic"
                      THEN sort_unstable_rev(edge_list.edges)
                      ELSE { edge_list.edges }) :
          /\ edge_list' = [edge_list EXCEPT !.edges = sorted]
          /\ adjacency_matrix' = AddAll(AdjacencyNew(edge_list.n_vertices), sorted)
    /\ mode' = m
    /\ order' = o
    /\ max_time' = t
    /\ arg' = edge_list
    /\ remaining_edges' = << >>
    /\ decisions' = << >>
    /\ idx' = 1
    /\ elapsed' = 0
    /\ result' = None
    /\ last' = Nothing
    /\ pc' = "loop"
    /\ UNCHANGED << input, calls, link >>
    /\ UNCHANGED unit_vars

\* One loop iteration whose budget check fires: the clone of the list is returned.
Timeout ==
    /\ pc = "loop"
    /\ idx <= Len(edge_list.edges)
    /\ max_time # None
    /\ \E now \in Clock :
          /\ now >= elapsed
          /\ now > max_time[1]
          /\ elapsed' = now
    /\ result' = Some(clone(edge_list, remaining_edges))
    /\ calls' = Append(calls, Finished(clone(edge_list, remaining_edges), TRUE))
    /\ last' = [kind |-> "timeout", edge |-> edge_list.edges[idx],
                before |-> adjacency_matrix, at |-> idx]
    /\ pc' = "done"
    /\ UNCHANGED << input, edge_list, mode, order, max_time, idx, adjacency_matrix,
                    remaining_edges, arg, decisions, link >>
    /\ UNCHANGED unit_vars

\* One loop iteration whose budget check passes (or that has no budget): the
\* edge is tested and then deleted from the index or pushed to the survivors.
Iterate ==
    /\ pc = "loop"
    /\ idx <= Len(edge_list.edges)
    /\ IF max_time = None THEN elapsed' = elapsed
       ELSE \E now \in Clock :
               /\ now >= elapsed
               /\ ~(now > max_time[1])
               /\ elapsed' = now
    /\ LET edge == edge_list.edges[idx]
           dominated == is_dominated(mode, adjacency_matrix, edge)
       IN  /\ IF dominated
              THEN /\ adjacency_matrix' = delete_edge(adjacency_matrix, edge)
                   /\ remaining_edges' = remaining_edges
              ELSE /\ adjacency_matrix' = adjacency_matrix
                   /\ remaining_edges' = push(remaining_edges, edge)
           /\ decisions' = Append(decisions, dominated)
           /\ last' = [kind |-> IF dominated THEN "deleted" ELSE "kept", edge |-> edge,
                       before |-> adjacency_matrix, at |-> idx]
    /\ idx' = idx + 1
    /\ UNCHANGED << input, edge_list, mode, order, max_time, pc, result, arg, calls, link >>
    /\ UNCHANGED unit_vars

\* The end of the loop: remaining_edges.into().
Return ==
    /\ pc = "loop"
    /\ idx > Len(edge_list.edges)
    /\ result' = Some(EdgeListFrom(remaining_edges))
    /\ calls' = Append(calls, Finished(EdgeListFrom(remaining_edges), FALSE))
    /\ pc' = "done"
    /\ UNCHANGED << input, edge_list, mode, order, max_time, idx, adjacency_matrix,
                    remaining_edges, elapsed, last, arg, decisions, link >>
    /\ UNCHANGED unit_vars

(***************************************************************************)
(* The caller between two calls.                                           *)
(***************************************************************************)
\* edges = collapsed_edges: the result becomes the next call's list.
Feed ==
    /\ pc = "done"
    /\ link = "first"
    /\ max_time = None
    /\ edge_list' = result[1]
    /\ link' = "feed"
    /\ pc' = "idle"
    /\ UNCHANGED << input, mode, order, max_time, idx, adjacency_matrix, remaining_edges,
                    elapsed, result, last, arg, decisions, calls >>
    /\ UNCHANGED unit_vars

Swap(s, i, j) == [k \in 1 .. Len(s) |-> IF k = i THEN s[j] ELSE IF k = j THEN s[i] ELSE s[k]]

\* EdgeList::shuffle, one exchange of two positions (or none) at a time.
Shuffle ==
    /\ pc = "done"
    /\ link = "first"
    /\ max_time = None
    /\ \E i \in 1 .. Len(edge_list.edges) :
          \E j \in { i, i + 1 } \cap (1 .. Len(edge_list.edges)) :
              edge_list' = [edge_list EXCEPT !.edges = Swap(@, i, j)]
    /\ link' = "shuffle"
    /\ pc' = "idle"
    /\ UNCHANGED << input, mode, order, max_time, idx, adjacency_matrix, remaining_edges,
                    elapsed, result, last, arg, decisions, calls >>
    /\ UNCHANGED unit_vars

Next ==
    \/ \E m \in Modes, o \in Orders, t \in Budgets : Call(m, o, t)
    \/ Timeout
    \/ Iterate
    \/ Return
    \/ Feed
    \/ Shuffle

Spec == Init /\ [][Next]_vars

(***************************************************************************)
(* Vocabulary of the properties.                                           *)
(***************************************************************************)
Range(s) == { s[i] : i \in 1 .. Len(s) }

\* A filtered edge with its endpoints as the unordered pair (min, max).
Unordered(e) == [grade |-> e.grade, edge |-> minmax(e)]
UnorderedSeq(s) == [i \in 1 .. Len(s) |-> Unordered(s[i])]

Count(s, x) == Cardinality({ i \in 1 .. Len(s) : s[i] = x })
SubMultiset(s, t) == \A x \in Range(s) : Count(s, x) <= Count(t, x)
SameMultiset(s, t) == SubMultiset(s, t) /\ SubMultiset(t, s)

RECURSIVE IsSubsequence(_, _)
IsSubsequence(s, t) ==
    IF s = << >> THEN TRUE
    ELSE IF t = << >> THEN FALSE
    ELSE IF Head(s) = Head(t) THEN IsSubsequence(Tail(s), Tail(t))
    ELSE IsSubsequence(s, Tail(t))

Done == pc = "done"
TimedOut == pc = "done" /\ last.kind = "timeout"
Tested == pc \in { "loop", "done" } /\ last.kind \in { "deleted", "kept" }

\* Vertex w dominates edge e = {u, v} at grade t in index A: w is a common
\* neighbour present at t, and every other common neighbour present at t is a
\* neighbour of w at t.
DominatesAt(A, e, w, t) ==
    LET u  == e.edge[1]
        v  == e.edge[2]
        cn == (DOMAIN A[u] \cap DOMAIN A[v]) \ { u, v }
    IN  /\ w \in cn
        /\ lte(A[u][w], t) /\ lte(A[v][w], t)
        /\ \A a \in cn \ { w } :
              (lte(A[u][a], t) /\ lte(A[v][a], t))
                  => (a \in DOMAIN A[w] /\ lte(A[w][a], t))

DominatedAt(A, e, t) == \E w \in DOMAIN A : DominatesAt(A, e, w, t)

\* The definition of strong domination, on the neighbourhoods as sets.
StronglyDominatedBy(A, e, w, value_w) ==
    \A a \in Range(closed_neighbours_edge(A, e)) :
        \E b \in Range(closed_neighbours(A, w, join(value_w, e.grade))) :
            b[1] = a[1] /\ lte(b[2], a[2])

StronglyDominated(A, e) ==
    \E c \in Range(common_neighbours(A, e)) : StronglyDominatedBy(A, e, c[1], c[2])

(***************************************************************************)
(* C1.  Full-mode soundness: whenever the full driver deletes an edge e,   *)
(* then in the index as it stands just before the deletion, at every grade *)
(* t of the value domain with rho(e) <= t some vertex dominates e.         *)
(***************************************************************************)
C1_FullDeletionIsDominatedEverywhere ==
    (mode = "full" /\ pc \in { "loop", "done" } /\ last.kind = "deleted")
        => \A t \in Grades : lte(last.edge.grade, t) => DominatedAt(last.before, last.edge, t)

(***************************************************************************)
(* C3.  The strong test returns true exactly when some common neighbour w  *)
(* has, for every (a, alpha) of the closed edge neighbourhood, an entry    *)
(* (a, beta) in its closed neighbourhood at rho(w) join rho(e) with        *)
(* beta <= alpha.                                                          *)
(***************************************************************************)
C3_StrongTestMatchesDefinition ==
    (mode = "strong" /\ Tested)
        => ((last.kind = "deleted") <=> StronglyDominated(last.before, last.edge))

\* The strong test accepted an edge that has a common neighbour which fails
\* (an entry with beta not <= alpha, or a missing vertex) beside one that passes.
C3_Witness ==
    /\ mode = "strong" /\ Tested /\ last.kind = "deleted"
    /\ \E c \in Range(common_neighbours(last.before, last.edge)) :
          ~StronglyDominatedBy(last.before, last.edge, c[1], c[2])

(***************************************************************************)
(* C4.  Whatever the mode, the order and the budget, the returned list is  *)
(* a sub-multiset of the list handed in: every returned filtered edge      *)
(* occurs in the input at least as often, grade and endpoints unaltered.   *)
(***************************************************************************)
C4_ResultIsSubMultiset ==
    Done => SubMultiset(result[1].edges, arg.edges)

\* A call returned some but not all of its edges.
C4_Witness ==
    /\ Done
    /\ result[1].edges # << >>
    /\ Len(result[1].edges) < Len(arg.edges)

(***************************************************************************)
(* Pairs of calls of one behaviour.                                        *)
(***************************************************************************)
Plain(c) == c.order = "ReverseLexicographic" /\ c.max_time = None

\* The second call ran on the first call's result, in the same mode, both in
\* reverse lexicographic order and without a budget.
SecondPass ==
    /\ Len(calls) = 2
    /\ calls[2].link = "feed"
    /\ calls[1].mode = calls[2].mode
    /\ Plain(calls[1]) /\ Plain(calls[2])

\* The two calls ran on the same multiset of edges (the second on a shuffle of
\* the first one's list), both in reverse lexicographic order without a budget.
SameInputTwice ==
    /\ Len(calls) = 2
    /\ calls[2].link = "shuffle"
    /\ Plain(calls[1]) /\ Plain(calls[2])

SameEdges(r1, r2) ==
    /\ r1.n_vertices = r2.n_vertices
    /\ UnorderedSeq(r1.edges) = UnorderedSeq(r2.edges)

(***************************************************************************)
(* C5 as stated.  Idempotence: a second call on the result E' of a first   *)
(* call (same mode, ReverseLexicographic, no budget) returns E' again.     *)
(***************************************************************************)
C5_SecondPassReturnsSame ==
    SecondPass => SameEdges(calls[2].result, calls[1].result)

(***************************************************************************)
(* C5 as amended.  A second call on E' returns a sub-list of E' (the edges *)
(* it keeps, in E''s order, unaltered), possibly a shorter one; it returns *)
(* E' again when the first call removed no edge.                           *)
(***************************************************************************)
C5_SecondPassReturnsSublist ==
    SecondPass =>
        /\ IsSubsequence(UnorderedSeq(calls[2].result.edges),
                         UnorderedSeq(calls[1].result.edges))
        /\ (Len(calls[1].result.edges) = Len(calls[1].arg.edges)
               => SameEdges(calls[2].result, calls[1].result))

\* A second pass removed an edge from a result that a first pass had reduced.
C5_Witness ==
    /\ SecondPass
    /\ Len(calls[2].result.edges) < Len(calls[1].result.edges)
    /\ Len(calls[1].result.edges) < Len(calls[1].arg.edges)

(***************************************************************************)
(* C6 as stated.  On the same input, every edge the full driver returns is *)
(* also returned by the strong driver.                                     *)
(***************************************************************************)
StrongCall == IF calls[1].mode = "strong" THEN calls[1] ELSE calls[2]
FullCall == IF calls[1].mode = "full" THEN calls[1] ELSE calls[2]

OneOfEach == SameInputTwice /\ calls[1].mode # calls[2].mode

C6_FullOutputWithinStrongOutput ==
    OneOfEach =>
        Range(UnorderedSeq(FullCall.result.edges))
            \subseteq Range(UnorderedSeq(StrongCall.result.edges))

(***************************************************************************)
(* C6 as amended.  The two runs walk the same sorted list; up to the first *)
(* position where their verdicts differ they keep the same edges, and at   *)
(* that position it is the full run that removes the edge and the strong   *)
(* run that keeps it.  Beyond it neither output need contain the other.    *)
(***************************************************************************)
C6_FirstDifferenceIsAFullRemoval ==
    OneOfEach =>
        /\ UnorderedSeq(StrongCall.list.edges) = UnorderedSeq(FullCall.list.edges)
        /\ \A i \in 1 .. Len(StrongCall.decisions) :
              (\A j \in 1 .. i - 1 : StrongCall.decisions[j] = FullCall.decisions[j])
                  => (StrongCall.decisions[i] => FullCall.decisions[i])

\* The runs differ, and past the first difference the full run kept an edge
\* that the strong run removed.
C6_Witness ==
    /\ OneOfEach
    /\ \E i \in 1 .. Len(StrongCall.decisions) :
          /\ ~StrongCall.decisions[i] /\ FullCall.decisions[i]
          /\ \E k \in i + 1 .. Len(StrongCall.decisions) :
                StrongCall.decisions[k] /\ ~FullCall.decisions[k]

(***************************************************************************)
(* C7.  Order determinism: two lists holding the same multiset of filtered *)
(* edges (and n_vertices) in different sequence orders give, in the same   *)
(* mode with ReverseLexicographic and no budget, the same output sequence  *)
(* (edges compared with unordered endpoints).                              *)
(***************************************************************************)
C7_OutputIndependentOfInputOrder ==
    (SameInputTwice /\ calls[1].mode = calls[2].mode)
        => SameEdges(calls[1].result, calls[2].result)

\* The two input sequences differ, even as sequences of unordered edges, and
\* the runs removed something.
C7_Witness ==
    /\ SameInputTwice /\ calls[1].mode = calls[2].mode
    /\ UnorderedSeq(calls[1].arg.edges) # UnorderedSeq(calls[2].arg.edges)
    /\ Len(calls[2].result.edges) < Len(calls[2].arg.edges)
    /\ calls[2].result.edges # << >>

(***************************************************************************)
(* C8 as stated.  With budget 0, in both modes and both orders, the call   *)
(* returns a list equal to the list handed in: the same filtered edges in  *)
(* the same sequence order, with the same n_vertices.                      *)
(***************************************************************************)
C8_BudgetZeroReturnsInput ==
    (Done /\ max_time = Some(0)) => result[1] = arg

NonIncreasing(edges) ==
    \A i \in 1 .. Len(edges) : \A j \in i + 1 .. Len(edges) :
        edge_cmp(edges[i], edges[j]) # "Less"

(***************************************************************************)
(* C8 as amended.  With budget 0, whenever the budget check fires (the     *)
(* clock must have advanced: the check is elapsed > budget, and an empty   *)
(* list never reaches it), the call returns the caller's list as the call  *)
(* left it: the same n_vertices and the same filtered edges, in the input  *)
(* sequence order under Maintain and sorted in reverse lexicographic order *)
(* under ReverseLexicographic.                                             *)
(***************************************************************************)
C8_BudgetZeroTimeoutReturnsList ==
    (TimedOut /\ max_time = Some(0)) =>
        /\ result[1] = edge_list
        /\ result[1].n_vertices = arg.n_vertices
        /\ SameMultiset(result[1].edges, arg.edges)
        /\ order = "Maintain" => result[1].edges = arg.edges
        /\ order = "ReverseLexicographic" => NonIncreasing(result[1].edges)

\* The check fired with budget 0 in the full driver, after an edge had been
\* deleted, and the returned sequence is not in the order of the input.
C8_Witness ==
    /\ TimedOut /\ max_time = Some(0) /\ mode = "full"
    /\ Len(remaining_edges) < idx - 1
    /\ result[1].edges # arg.edges

(***************************************************************************)
(* C9.  Whenever the budget check fires, at any iteration and also after   *)
(* earlier iterations deleted edges from the index, the strong and the     *)
(* full driver alike return exactly the multiset of edges and the          *)
(* n_vertices of the input list, never the survivors accumulated so far.   *)
(***************************************************************************)
C9_TimeoutReturnsWholeInput ==
    TimedOut =>
        /\ SameMultiset(result[1].edges, arg.edges)
        /\ result[1].n_vertices = arg.n_vertices

\* The check fired in the strong driver at a later iteration, after an edge
\* had been deleted from the index and another had been pushed.
C9_Witness ==
    /\ TimedOut /\ mode = "strong"
    /\ remaining_edges # << >>
    /\ Len(remaining_edges) < idx - 1

(***************************************************************************)
(* C10.  For every valid edge list (no self-loop, n_vertices >= 1 + the    *)
(* largest endpoint), the list returned with ReverseLexicographic and no   *)
(* budget has the n_vertices of the input, in both modes.                  *)
(***************************************************************************)
C10_VertexCountPreserved ==
    (Done /\ order = "ReverseLexicographic" /\ max_time = None)
        => result[1].n_vertices = arg.n_vertices

C12_CallerListOnlyPermuted ==
    pc \in { "loop", "done" } =>
        /\ edge_list.n_vertices = arg.n_vertices
        /\ SameMultiset(edge_list.edges, arg.edges)
        /\ order = "Maintain" => edge_list = arg

\* A call that removed edges has returned, and left the caller's list permuted.
C12_Witness ==
    /\ Done /\ last.kind # "timeout"
    /\ Len(result[1].edges) < Len(arg.edges)
    /\ edge_list.edges # arg.edges
    /\ Len(edge_list.edges) = Len(arg.edges)

(***************************************************************************)
(* Stripes on its own: a Vec<Stripe> of up to MaxStripes stripes with      *)
(* endpoints and values in StripeValue is filled, handed to Stripes::new,  *)
(* and the result is queried with contains_point.                          *)
(***************************************************************************)
MaxStripes == 2
MaxStripeValue == 2

\* Small values and the largest value of the type.
StripeValue == (0 .. MaxStripeValue) \cup { VMax }

\* The driver is not running: a component is used on its own.
DriverParked(component, index) ==
    /\ input = EdgeListFrom(<< >>)
    /\ edge_list = input
    /\ mode = "strong"
    /\ order = "Maintain"
    /\ max_time = None
    /\ pc = component
    /\ idx = 0
    /\ adjacency_matrix = index
    /\ remaining_edges = << >>
    /\ elapsed = 0
    /\ result = None
    /\ last = Nothing
    /\ arg = input
    /\ decisions = << >>
    /\ calls = << >>
    /\ link = "first"

StripesInit == DriverParked("stripes", << >>) /\ StripesIdle

\* stripes.push(((a, b), v)) by the caller of Stripes::new.
PushStripe ==
    /\ pc = "stripes"
    /\ stripes_built = None
    /\ Len(stripe_list) < MaxStripes
    /\ \E a \in StripeValue, b \in StripeValue, v \in StripeValue :
          stripe_list' = Append(stripe_list, << << a, b >>, v >>)
    /\ UNCHANGED << stripes_built, point, contained >>
    /\ UNCHANGED driver_vars
    /\ UNCHANGED << pure_vars, par_vars >>

\* Stripes::new(stripes); a panic inside it is recorded in the result.
New ==
    /\ pc = "stripes"
    /\ stripes_built = None
    /\ stripes_built' = Some(StripesNew(stripe_list))
    /\ UNCHANGED << stripe_list, point, contained >>
    /\ UNCHANGED driver_vars
    /\ UNCHANGED << pure_vars, par_vars >>

\* stripes.contains_point(p) on a Stripes that Stripes::new returned.
ContainsPoint ==
    /\ pc = "stripes"
    /\ stripes_built # None
    /\ ~stripes_built[1].panicked
    /\ \E p \in StripeValue \X StripeValue :
          /\ point' = Some(p)
          /\ contained' = Some(stripes_contains_point(stripes_built[1], p))
    /\ UNCHANGED << stripe_list, stripes_built >>
    /\ UNCHANGED driver_vars
    /\ UNCHANGED << pure_vars, par_vars >>

StripesNext == PushStripe \/ New \/ ContainsPoint

StripesSpec == StripesInit /\ [][StripesNext]_vars

\* The linear scan: some stripe ((a, b), y0) has a <= x < b and y0 <= y.
Covered(list, p) ==
    \E i \in 1 .. Len(list) :
        /\ list[i][1][1] <= p[1] /\ p[1] < list[i][1][2]
        /\ list[i][2] <= p[2]

(***************************************************************************)
(* C13.  Stripe point query equals linear scan: for every list of stripes  *)
(* and every query point (x, y), also with y the largest value of the      *)
(* type, contains_point is true exactly when some stripe ((a, b), y0) has  *)
(* a <= x < b and y0 <= y.                                                 *)
(***************************************************************************)
C13_QueryEqualsLinearScan ==
    (stripes_built # None /\ point # None)
        => (contained[1] <=> Covered(stripe_list, point[1]))

(***************************************************************************)
(* C14.  Stripes has no failure mode: for every list of stripes, whatever  *)
(* the relation between a and b, Stripes::new completes: every End event   *)
(* it processes finds its value among the active values.                   *)
(***************************************************************************)
C14_NewNeverPanics ==
    stripes_built # None => ~stripes_built[1].panicked

(***************************************************************************)
(* The adjacency index on its own: AdjacencyMatrix::new(IndexSize), then   *)
(* any sequence of add_edge and delete_edge, on pairs of distinct vertices  *)
(* given in either order, with grades in IndexGrades.                      *)
(***************************************************************************)
IndexSize == 4

IndexVertices == 0 .. IndexSize - 1

\* The grades of the edges put in the index: incomparable ones, their meet,
\* and the largest grade of the type.
IndexGrades == { << 0, 0 >>, << 0, 1 >>, << 1, 0 >>, max_value }

IndexInit == DriverParked("index", AdjacencyNew(IndexSize)) /\ StripesIdle

AddEdge ==
    /\ pc = "index"
    /\ \E u \in IndexVertices, v \in IndexVertices, g \in IndexGrades :
          /\ u # v
          /\ adjacency_matrix' = add_edge(adjacency_matrix, FilteredEdge(g, u, v))
    /\ UNCHANGED << input, edge_list, mode, order, max_time, pc, idx, remaining_edges,
                    elapsed, result, last, arg, decisions, calls, link >>
    /\ UNCHANGED unit_vars

DeleteEdge ==
    /\ pc = "index"
    /\ \E u \in IndexVertices, v \in IndexVertices :
          /\ u # v
          /\ \E g \in IndexGrades :
                adjacency_matrix' = delete_edge(adjacency_matrix, FilteredEdge(g, u, v))
    /\ UNCHANGED << input, edge_list, mode, order, max_time, pc, idx, remaining_edges,
                    elapsed, result, last, arg, decisions, calls, link >>
    /\ UNCHANGED unit_vars

IndexNext == AddEdge \/ DeleteEdge

IndexSpec == IndexInit /\ [][IndexNext]_vars

\* The edges an index holds, each once with its endpoints as (min, max).
EdgesOf(A) ==
    UNION { { FilteredEdge(A[u][v], u, v) : v \in { x \in DOMAIN A[u] : u < x } }
            : u \in DOMAIN A }

(***************************************************************************)
(* C15.  Adjacency symmetry: after any sequence of add_edge and            *)
(* delete_edge on new(n), for all u, v in [0, n): v is a key of N(u) if    *)
(* and only if u is a key of N(v), and then N(u)[v] = N(v)[u].             *)
(***************************************************************************)
C15_AdjacencySymmetric ==
    pc = "index" =>
        \A u \in IndexVertices, v \in IndexVertices :
            /\ v \in DOMAIN adjacency_matrix[u] <=> u \in DOMAIN adjacency_matrix[v]
            /\ v \in DOMAIN adjacency_matrix[u]
                 => adjacency_matrix[u][v] = adjacency_matrix[v][u]

\* An index in which one vertex has three neighbours at three different
\* grades and two other vertices are not adjacent.
C15_Witness ==
    /\ pc = "index"
    /\ \E u \in IndexVertices :
          /\ Cardinality(DOMAIN adjacency_matrix[u]) = 3
          /\ Cardinality({ adjacency_matrix[u][v] : v \in DOMAIN adjacency_matrix[u] }) = 3
    /\ \E u \in IndexVertices, v \in IndexVertices :
          u # v /\ v \notin DOMAIN adjacency_matrix[u]

\* w, a common neighbour of e with joined grade value_w, as the full test
\* hands it to calculate_non_domination_region.
RegionOf(A, e, c) == calculate_non_domination_region(A, e, c[1], c[2])

(***************************************************************************)
(* C16.  The non-domination region is exact: for every index A, edge e of  *)
(* A, common neighbour w of e and grade g of the value domain with         *)
(* rho(e) <= g, the region of w contains g if and only if w does not       *)
(* dominate e at g.                                                        *)
(***************************************************************************)
C16_RegionIsExact ==
    pc = "index" =>
        \A e \in EdgesOf(adjacency_matrix) :
            \A c \in Range(common_neighbours(adjacency_matrix, e)) :
                \A g \in Grades :
                    lte(e.grade, g) =>
                        (region_contains_point(RegionOf(adjacency_matrix, e, c), g)
                            <=> ~DominatesAt(adjacency_matrix, e, c[1], g))

(***************************************************************************)
(* C17.  The region of w is empty if and only if is_subset accepts the     *)
(* closed edge neighbourhood of e against the closed neighbourhood of w at *)
(* rho(w) join rho(e), for every index A, edge e of A and common           *)
(* neighbour w of e.                                                       *)
(***************************************************************************)
C17_EmptyRegionIsStrongDomination ==
    pc = "index" =>
        \A e \in EdgesOf(adjacency_matrix) :
            \A c \in Range(common_neighbours(adjacency_matrix, e)) :
                region_is_empty(RegionOf(adjacency_matrix, e, c))
                    <=> is_subset(closed_neighbours_edge(adjacency_matrix, e),
                                  closed_neighbours(adjacency_matrix, c[1],
                                                    join(c[2], e.grade)))

(***************************************************************************)
(* C20.  closed_neighbours_edge on a self-loop-free index, for an edge     *)
(* e = {u, v} with grade rho(e), given in either orientation and whether   *)
(* or not the index holds it: the vertices come strictly increasing; the   *)
(* items are exactly (u, rho(e)), (v, rho(e)) and, for every w in          *)
(* N(u) intersect N(v), (w, N(u)[w] join N(v)[w] join rho(e)); so every    *)
(* yielded grade is >= rho(e).                                             *)
(***************************************************************************)
C20_ClosedEdgeNeighbourhood ==
    pc = "index" =>
        \A u \in IndexVertices, v \in IndexVertices, g \in IndexGrades :
            u # v =>
            LET A   == adjacency_matrix
                out == closed_neighbours_edge(A, FilteredEdge(g, u, v))
            IN  /\ \A i \in 1 .. Len(out) - 1 : out[i][1] < out[i + 1][1]
                /\ Range(out) =
                      { << u, g >>, << v, g >> } \cup
                      { << w, join(join(A[u][w], A[v][w]), g) >> :
                            w \in DOMAIN A[u] \cap DOMAIN A[v] }
                /\ \A i \in 1 .. Len(out) : lte(g, out[i][2])

\* An edge of the index with two common neighbours, one below both endpoints
\* and one above them, reached over edges of incomparable grades that are not
\* below the edge's own grade.
C20_Witness ==
    /\ pc = "index"
    /\ \E e \in EdgesOf(adjacency_matrix) :
          LET A == adjacency_matrix
              u == e.edge[1]
              v == e.edge[2]
          IN  /\ Len(common_neighbours(A, e)) = 2
              /\ \E w \in DOMAIN A[u] \cap DOMAIN A[v] :
                    /\ w > v
                    /\ ~lte(A[u][w], A[v][w]) /\ ~lte(A[v][w], A[u][w])
                    /\ ~lte(A[u][w], e.grade)
              /\ \E w \in DOMAIN A[u] \cap DOMAIN A[v] : w < u

(***************************************************************************)
(* C18 as stated.  Square with diagonal: on the five edges (0,1), (1,2),   *)
(* (2,3), (3,0), (0,2), all at grade (0,0), the strong driver with         *)
(* ReverseLexicographic and no budget removes the diagonal (0,2) and       *)
(* returns a list of 4 edges.                                              *)
(***************************************************************************)
SquareRun ==
    /\ Len(calls) >= 1
    /\ calls[1].arg = [n_vertices |-> 4, edges |-> SquareDiagonal]
    /\ calls[1].mode = "strong"
    /\ Plain(calls[1])

Diagonal == FilteredEdge(<< 0, 0 >>, 0, 2)

C18_SquareLosesItsDiagonal ==
    SquareRun =>
        /\ Len(calls[1].result.edges) = 4
        /\ Diagonal \notin Range(calls[1].result.edges)

(***************************************************************************)
(* C18 as amended.  On that input the strong driver walks the edges in the *)
(* order (2,3), (1,2), (3,0), (0,2), (0,1); it removes (2,3) and (1,2),    *)
(* each dominated by vertex 0, after which no remaining edge has a common  *)
(* neighbour, and it returns the 3 edges (3,0), (0,2), (0,1): the diagonal *)
(* is kept.                                                                *)
(***************************************************************************)
C18_SquareKeepsItsDiagonal ==
    SquareRun =>
        /\ calls[1].decisions = << TRUE, TRUE, FALSE, FALSE, FALSE >>
        /\ calls[1].result =
              [n_vertices |-> 4,
               edges |-> << FilteredEdge(<< 0, 0 >>, 3, 0), Diagonal,
                            FilteredEdge(<< 0, 0 >>, 0, 1) >>]

\* The run on the square has returned, with the diagonal among the survivors.
C18_Witness ==
    /\ SquareRun
    /\ Diagonal \in Range(calls[1].result.edges)
    /\ calls[1].list.edges[1] = FilteredEdge(<< 0, 0 >>, 2, 3)

(***************************************************************************)
(* The drivers on chordless 4-cycles: the edges (0,1), (1,2), (2,3), (3,0) *)
(* under every assignment of grades with components up to MaxCycleValue.   *)
(***************************************************************************)
MaxCycleValue == 1

CycleGrades == (0 .. MaxCycleValue) \X (0 .. MaxCycleValue)

FourCycle(g1, g2, g3, g4) ==
    << FilteredEdge(g1, 0, 1), FilteredEdge(g2, 1, 2),
       FilteredEdge(g3, 2, 3), FilteredEdge(g4, 3, 0) >>

CycleInputs ==
    { [n_vertices |-> 4, edges |-> FourCycle(g1, g2, g3, g4)] :
          g1 \in CycleGrades, g2 \in CycleGrades, g3 \in CycleGrades, g4 \in CycleGrades }

CycleInit ==
    /\ input \in CycleInputs
    /\ edge_list = input
    /\ arg = input
    /\ mode = "strong"
    /\ order = "Maintain"
    /\ max_time = None
    /\ pc = "idle"
    /\ idx = 0
    /\ adjacency_matrix = << >>
    /\ remaining_edges = << >>
    /\ elapsed = 0
    /\ result = None
    /\ last = Nothing
    /\ decisions = << >>
    /\ calls = << >>
    /\ link = "first"
    /\ StripesIdle

CycleSpec == CycleInit /\ [][Next]_vars

(***************************************************************************)
(* C19 as stated, read on the assignment of grades a behaviour starts      *)
(* from: on the chordless 4-cycle the strong driver returns all 4 edges    *)
(* and the full driver returns exactly 3.                                  *)
(***************************************************************************)
C19_FullRemovesOneEdgeOfTheCycle ==
    OneOfEach =>
        /\ Len(StrongCall.result.edges) = 4
        /\ Len(FullCall.result.edges) = 3

(***************************************************************************)
(* C19 as amended.  Under every assignment of grades to the four edges of  *)
(* a chordless 4-cycle no edge has a common neighbour, so neither test     *)
(* accepts any edge: the strong and the full driver both return all 4      *)
(* edges, in every order and at every point of a run.                      *)
(***************************************************************************)
C19_CycleIsNeverReduced ==
    /\ pc \in { "loop", "done" } => \A i \in 1 .. Len(decisions) : ~decisions[i]
    /\ Done => SameMultiset(result[1].edges, arg.edges)
    /\ \A k \in 1 .. Len(calls) : Len(calls[k].result.edges) = 4

\* Both drivers have run to the end on a cycle whose four edges have four
\* different grades, two of them incomparable.
C19_Witness ==
    /\ OneOfEach
    /\ Cardinality({ input.edges[i].grade : i \in 1 .. 4 }) = 4
    /\ Len(StrongCall.decisions) = 4 /\ Len(FullCall.decisions) = 4

(***************************************************************************)
(* C21.  closed_neighbours on a self-loop-free index, for every vertex u   *)
(* and grade g: the vertices come strictly increasing, and the items are   *)
(* exactly (w, N(u)[w]) for every w in N(u) together with (u, g).          *)
(***************************************************************************)
C21_ClosedNeighbourhood ==
    pc = "index" =>
        \A u \in IndexVertices, g \in IndexGrades :
            LET A   == adjacency_matrix
                out == closed_neighbours(A, u, g)
            IN  /\ \A i \in 1 .. Len(out) - 1 : out[i][1] < out[i + 1][1]
                /\ Range(out) = { << w, A[u][w] >> : w \in DOMAIN A[u] } \cup { << u, g >> }

\* A vertex with a neighbour below it and a neighbour above it, at different
\* grades.
C21_Witness ==
    /\ pc = "index"
    /\ \E u \in IndexVertices :
          \E w1 \in DOMAIN adjacency_matrix[u], w2 \in DOMAIN adjacency_matrix[u] :
              /\ w1 < u /\ u < w2
              /\ adjacency_matrix[u][w1] # adjacency_matrix[u][w2]

(***************************************************************************)
(* EdgeList on its own (src/src/edges.rs): lists of up to MaxListLen edges *)
(* over the vertices 0 .. MaxListVertex are built with new, From<Vec>      *)
(* (which from_iterator calls after collecting) and add_edge.              *)
(***************************************************************************)
MaxListLen == 3
MaxListVertex == 2

ListVertices == 0 .. MaxListVertex

\* What a caller can hand over as an edge: any pair of vertices.
ListEdges == { FilteredEdge(<< 0, 0 >>, u, v) : u \in ListVertices, v \in ListVertices }

\* The vectors handed to From<Vec>.
ListVecs ==
    UNION { [1 .. n -> ListEdges] : n \in 0 .. MaxListLen - 1 }

\* EdgeList::new.
EdgeListNew(n_vertices) == [n_vertices |-> n_vertices, edges |-> << >>]

\* Variant: add_edge sets n_vertices from the new edge alone.
EdgeList_add_edge_reset(list, e) ==
    [n_vertices |-> Max2(e.edge[1], e.edge[2]) + 1, edges |-> Append(list.edges, e)]

\* EdgeList::add_edge past its assert_ne!.
EdgeList_add_edge(list, e) ==
    LET greatest_vertex == Max2(e.edge[1], e.edge[2])
    IN  [n_vertices |-> Max2(list.n_vertices, greatest_vertex + 1),
         edges |-> Append(list.edges, e)]

ListInit ==
    /\ DriverParked("list", << >>)
    /\ StripesIdle

ListFrame ==
    /\ UNCHANGED << input, mode, order, max_time, idx, adjacency_matrix, remaining_edges,
                    elapsed, result, arg, decisions, calls, link >>
    /\ UNCHANGED unit_vars

ListNew ==
    /\ pc = "list"
    /\ \E n \in 0 .. MaxListVertex + 2 :
          /\ edge_list' = EdgeListNew(n)
          /\ last' = [kind |-> "new", edge |-> NoEdge, before |-> edge_list, at |-> 0]
    /\ pc' = pc
    /\ ListFrame

ListFrom ==
    /\ pc = "list"
    /\ \E edges \in ListVecs :
          /\ edge_list' = EdgeListFrom(edges)
          /\ last' = [kind |-> "from", edge |-> NoEdge, before |-> edge_list, at |-> 0]
    /\ pc' = pc
    /\ ListFrame

\* add_edge: assert_ne!(u, v) aborts the program; otherwise the edge is pushed.
ListAddEdge ==
    /\ pc = "list"
    /\ Len(edge_list.edges) < MaxListLen
    /\ \E e \in ListEdges :
          IF e.edge[1] = e.edge[2]
          THEN /\ pc' = "aborted"
               /\ edge_list' = edge_list
               /\ last' = [kind |-> "panicked", edge |-> e, before |-> edge_list, at |-> 0]
          ELSE /\ pc' = pc
               /\ edge_list' = EdgeList_add_edge(edge_list, e)
               /\ last' = [kind |-> "added", edge |-> e, before |-> edge_list, at |-> 0]
    /\ ListFrame

ListNext == ListNew \/ ListFrom \/ ListAddEdge

ListSpec == ListInit /\ [][ListNext]_vars

InList == pc \in { "list", "aborted" }

(***************************************************************************)
(* C22.  Edge-list vertex bound: after any sequence of constructions and   *)
(* add_edge calls, n_vertices >= 1 + the largest endpoint of any edge of   *)
(* the list; add_edge never decreases n_vertices and raises it to          *)
(* max(u, v) + 1 when needed.                                              *)
(***************************************************************************)
C22_VertexBound ==
    InList =>
        /\ \A i \in 1 .. Len(edge_list.edges) :
              edge_list.n_vertices >= 1 + Max2(edge_list.edges[i].edge[1],
                                               edge_list.edges[i].edge[2])
        /\ last.kind = "added" =>
              /\ edge_list.n_vertices >= last.before.n_vertices
              /\ edge_list.n_vertices >= Max2(last.edge.edge[1], last.edge.edge[2]) + 1
              /\ edge_list.n_vertices \in
                    { last.before.n_vertices, Max2(last.edge.edge[1], last.edge.edge[2]) + 1 }

\* add_edge has left n_vertices alone on a list whose earlier edge needs more
\* vertices than the new one, after an add_edge that had raised it.
C22_Witness ==
    /\ InList /\ last.kind = "added"
    /\ Len(edge_list.edges) >= 2
    /\ edge_list.n_vertices = last.before.n_vertices
    /\ edge_list.n_vertices > Max2(last.edge.edge[1], last.edge.edge[2]) + 1
    /\ edge_list.n_vertices = count_vertices(edge_list.edges)

(***************************************************************************)
(* C23.  No self-loops in an edge list: an EdgeList never holds an edge    *)
(* with u = v, whichever way it is built (new followed by add_edge,        *)
(* from_iterator, or From<Vec>).                                           *)
(***************************************************************************)
C23_NoSelfLoops ==
    InList =>
        \A i \in 1 .. Len(edge_list.edges) :
            edge_list.edges[i].edge[1] # edge_list.edges[i].edge[2]

(***************************************************************************)
(* The grade algebra on its own (src/src/lib.rs): join and lte applied to  *)
(* grades a, b of the value domain, with a third grade c to compare with.  *)
(***************************************************************************)
GradesInit ==
    /\ DriverParked("grades", << >>)
    /\ stripe_list = << >>
    /\ stripes_built = None
    /\ point = None
    /\ contained = None
    /\ operands \in Grades \X Grades \X Grades
    /\ outcome = None
    /\ ParIdle

\* a.join(&b).
Join ==
    /\ pc = "grades"
    /\ outcome = None
    /\ outcome' = Some([op |-> "join", grade |-> join(operands[1], operands[2]), holds |-> TRUE])
    /\ UNCHANGED << driver_vars, stripes_vars, operands, par_vars >>

\* a.lte(&b).
Lte ==
    /\ pc = "grades"
    /\ outcome = None
    /\ outcome' = Some([op |-> "lte", grade |-> operands[1], holds |-> lte(operands[1], operands[2])])
    /\ UNCHANGED << driver_vars, stripes_vars, operands, par_vars >>

GradesNext == Join \/ Lte

GradesSpec == GradesInit /\ [][GradesNext]_vars

(***************************************************************************)
(* C24.  Join is the least upper bound of the product order: a and b are   *)
(* lte join(a, b); if a and b are lte c then join(a, b) is lte c; a lte b  *)
(* holds exactly when join(a, b) = b and exactly when a0 <= b0 and         *)
(* a1 <= b1; and join(a, max_value()) = max_value().                       *)
(***************************************************************************)
C24_JoinIsLeastUpperBound ==
    (pc = "grades" /\ outcome # None) =>
        LET a == operands[1]
            b == operands[2]
            c == operands[3]
            j == outcome[1].grade
        IN  /\ outcome[1].op = "join" =>
                  /\ lte(a, j) /\ lte(b, j)
                  /\ (lte(a, c) /\ lte(b, c)) => lte(j, c)
                  /\ lte(a, b) <=> j = b
                  /\ b = max_value => j = max_value
            /\ outcome[1].op = "lte" =>
                  (outcome[1].holds <=> (a[1] <= b[1] /\ a[2] <= b[2]))

\* The join of two incomparable grades, neither of them the result, below a
\* third grade that is not the join and not the largest grade.
C24_Witness ==
    /\ pc = "grades" /\ outcome # None /\ outcome[1].op = "join"
    /\ ~lte(operands[1], operands[2]) /\ ~lte(operands[2], operands[1])
    /\ outcome[1].grade \notin { operands[1], operands[2], operands[3] }
    /\ lte(outcome[1].grade, operands[3])
    /\ operands[3] # max_value

(***************************************************************************)
(* C25.  Driver loop invariant: for any input list, also one in which an   *)
(* unordered pair occurs more than once, at the start of every iteration   *)
(* the index holds exactly the survivors so far together with the edges    *)
(* not yet processed, each at its list grade; on return the edges of the   *)
(* index are the returned survivors.                                       *)
(***************************************************************************)
C25_IndexIsSurvivorsAndPending ==
    /\ pc = "loop" =>
          EdgesOf(adjacency_matrix) =
              Range(UnorderedSeq(remaining_edges))
                  \cup Range(UnorderedSeq(SubSeq(edge_list.edges, idx, Len(edge_list.edges))))
    /\ (Done /\ last.kind # "timeout") =>
          EdgesOf(adjacency_matrix) = Range(UnorderedSeq(result[1].edges))

\* The join of a non-empty set of grades.
JoinAll(S) == << SetMax({ g[1] : g \in S }), SetMax({ g[2] : g \in S }) >>

(***************************************************************************)
(* C26.  Test grades are join-closed: for the edge e the full driver       *)
(* tests, with F the first domination times and T the domination times of  *)
(* is_filtration_dominated, the join of every non-empty subset of F is in  *)
(* T, T is closed under join, F is a subset of T, and rho(e) <= t for      *)
(* every t in T.                                                           *)
(***************************************************************************)
C26_TestGradesJoinClosed ==
    pc = "index" =>
        \A e \in EdgesOf(adjacency_matrix) :
            LET F == first_domination_times(adjacency_matrix, e)
                T == domination_times(adjacency_matrix, e)
            IN  /\ \A S \in SUBSET F : S # {} => JoinAll(S) \in T
                /\ \A t1 \in T, t2 \in T : join(t1, t2) \in T
                /\ F \subseteq T
                /\ \A t \in T : lte(e.grade, t)

\* An edge of the index has two common neighbours whose first domination
\* times are incomparable, so that their join is not a first domination time.
C26_Witness ==
    /\ pc = "index"
    /\ \E e \in EdgesOf(adjacency_matrix) :
          LET F == first_domination_times(adjacency_matrix, e)
          IN  /\ Len(common_neighbours(adjacency_matrix, e)) >= 2
              /\ Cardinality(F) >= 3
              /\ \E t1 \in F, t2 \in F : join(t1, t2) \notin F

\* The vertices that N(u) and N(v) share in the index A, for e = {u, v}.
Shared(A, e) == DOMAIN A[e.edge[1]] \cap DOMAIN A[e.edge[2]]

\* The vertex v is an endpoint of some edge of the sequence s.
Incident(v, s) == \E i \in 1 .. Len(s) : v \in { s[i].edge[1], s[i].edge[2] }

(***************************************************************************)
(* C27.  An edge without common neighbours is never removed: in both       *)
(* modes, if N(u) and N(v) share no vertex in the index when e = {u, v} is *)
(* processed, the driver appends e to the survivors and does not call      *)
(* delete_edge; and a vertex with an incident edge in the list the call    *)
(* received still has one in the list it returns.                          *)
(***************************************************************************)
C27_IsolatedEdgeIsKept ==
    /\ (Tested /\ Shared(last.before, last.edge) = {}) =>
          /\ last.kind = "kept"
          /\ adjacency_matrix = last.before
          /\ remaining_edges # << >>
          /\ remaining_edges[Len(remaining_edges)] = last.edge
    /\ Done =>
          \A e \in Range(arg.edges) : \A v \in Range(e.edge) :
              Incident(v, result[1].edges)

\* The full driver has removed an edge earlier in the call and now keeps an
\* edge whose endpoints share no vertex.
C27_Witness ==
    /\ Tested /\ mode = "full"
    /\ Shared(last.before, last.edge) = {}
    /\ last.kind = "kept"
    /\ \E i \in 1 .. Len(decisions) : decisions[i]

\* The entry N(x)[y] of the index A: None when y is not a neighbour of x.
Entry(A, x, y) == IF y \in DOMAIN A[x] THEN Some(A[x][y]) ELSE None

(***************************************************************************)
(* C28.  delete_edge frame: delete_edge on an edge {u, v} changes at most  *)
(* the entries N(u)[v] and N(v)[u], whatever grade the argument carries,   *)
(* and leaves every other entry of every per-vertex map unchanged; when v  *)
(* is not in N(u) the whole index is unchanged.                            *)
(***************************************************************************)
C28_DeleteEdgeFrame ==
    pc = "index" =>
        \A u \in IndexVertices, v \in IndexVertices, g \in IndexGrades :
            LET after == delete_edge(adjacency_matrix, FilteredEdge(g, u, v))
            IN  /\ DOMAIN after = DOMAIN adjacency_matrix
                /\ \A x \in IndexVertices, y \in IndexVertices :
                      << x, y >> \notin { << u, v >>, << v, u >> } =>
                          Entry(after, x, y) = Entry(adjacency_matrix, x, y)
                /\ v \notin DOMAIN adjacency_matrix[u] => after = adjacency_matrix

\* The index holds {u, v} at one grade, u and v have other neighbours, and
\* delete_edge with another grade in its argument removes the pair; some
\* other pair is absent, so that deleting it is the unchanged case.
C28_Witness ==
    /\ pc = "index"
    /\ \E u \in IndexVertices, v \in IndexVertices, g \in IndexGrades :
          /\ v \in DOMAIN adjacency_matrix[u]
          /\ adjacency_matrix[u][v] # g
          /\ Cardinality(DOMAIN adjacency_matrix[u]) >= 2
          /\ Cardinality(DOMAIN adjacency_matrix[v]) >= 2
          /\ Entry(delete_edge(adjacency_matrix, FilteredEdge(g, u, v)), u, v) = None
    /\ \E u \in IndexVertices, v \in IndexVertices :
          u # v /\ v \notin DOMAIN adjacency_matrix[u]

(***************************************************************************)
(* The parallel full test (src/src/removal/full/par.rs),                   *)
(* is_filtration_dominated_multithread, on an index built from a list and  *)
(* one edge of that list.  The regions are built by a parallel iterator    *)
(* (par_bridge, map, while_some, collect) and the test grades are checked  *)
(* by another (into_par_iter, all).  An item of either iterator is queued, *)
(* then taken by one of NumThreads workers, then finished; a worker takes  *)
(* a queued item only while the iterator's flag is down, and the queued    *)
(* items are dropped once it is up.  An item taken before the flag went up *)
(* is finished all the same.                                               *)
(***************************************************************************)
NumThreads == 2

\* The complete graph on five vertices at one grade.
Clique ==
    << FilteredEdge(<< 0, 0 >>, 0, 1), FilteredEdge(<< 0, 0 >>, 0, 2),
       FilteredEdge(<< 0, 0 >>, 0, 3), FilteredEdge(<< 0, 0 >>, 0, 4),
       FilteredEdge(<< 0, 0 >>, 1, 2), FilteredEdge(<< 0, 0 >>, 1, 3),
       FilteredEdge(<< 0, 0 >>, 1, 4), FilteredEdge(<< 0, 0 >>, 2, 3),
       FilteredEdge(<< 0, 0 >>, 2, 4), FilteredEdge(<< 0, 0 >>, 3, 4) >>

ParLists == UNION { Drops(g, MaxDrop) : g \in Catalogue \cup { Clique } }

Queued(t) == { k \in DOMAIN t : t[k] = "queued" }
Running(t) == { k \in DOMAIN t : t[k] = "running" }

\* Variant: the shortcut is taken also when every region was collected.
some_vertex_strongly_dominates_or_none(regions, n_neighbours) == Len(regions) <= n_neighbours

\* non_domination_regions.len() < n_neighbours.
some_vertex_strongly_dominates(regions, n_neighbours) == Len(regions) < n_neighbours

\* The closure handed to all(): some collected region does not contain the grade.
critical_value_dominated(regions, critical_value) ==
    \E i \in 1 .. Len(regions) : ~region_contains_point(regions[i], critical_value)

ParInit ==
    /\ \E s \in ParLists :
          /\ DriverParked("par_regions", AddAll(AdjacencyNew(count_vertices(s)), s))
          /\ \E e \in Range(s) : tested_edge = Some(e)
    /\ stripe_list = << >>
    /\ stripes_built = None
    /\ point = None
    /\ contained = None
    /\ operands = << >>
    /\ outcome = None
    /\ tasks = [i \in 1 .. Len(common_neighbours(adjacency_matrix, tested_edge[1])) |-> "queued"]
    /\ full = FALSE
    /\ non_domination_regions = << >>
    /\ verdict = None

ParFrame ==
    /\ UNCHANGED << input, edge_list, mode, order, max_time, idx, adjacency_matrix,
                    remaining_edges, elapsed, result, last, arg, decisions, calls, link >>
    /\ UNCHANGED << stripes_vars, pure_vars, tested_edge >>

\* A worker finds the flag down and takes the next item of the iterator.
TakeItem ==
    /\ pc \in { "par_regions", "par_grades" }
    /\ ~full
    /\ Cardinality(Running(tasks)) < NumThreads
    /\ \E k \in Queued(tasks) : tasks' = [tasks EXCEPT ![k] = "running"]
    /\ UNCHANGED << pc, full, non_domination_regions, verdict >>
    /\ ParFrame

\* The flag is up: an item not yet taken is never processed.
DropItem ==
    /\ pc \in { "par_regions", "par_grades" }
    /\ full
    /\ \E k \in Queued(tasks) : tasks' = [tasks EXCEPT ![k] = "dropped"]
    /\ UNCHANGED << pc, full, non_domination_regions, verdict >>
    /\ ParFrame

\* The map closure on one common neighbour, then while_some and collect on
\* what it returned: None raises the flag, Some(region) is collected.
BuildRegion ==
    /\ pc = "par_regions"
    /\ \E i \in Running(tasks) :
          LET cn     == common_neighbours(adjacency_matrix, tested_edge[1])
              region == calculate_non_domination_region(adjacency_matrix, tested_edge[1],
                                                        cn[i][1], cn[i][2])
          IN  /\ tasks' = [tasks EXCEPT ![i] = "done"]
              /\ IF region_is_empty(region)
                 THEN /\ full' = TRUE
                      /\ non_domination_regions' = non_domination_regions
                 ELSE /\ full' = full
                      /\ non_domination_regions' = Append(non_domination_regions, region)
    /\ UNCHANGED << pc, verdict >>
    /\ ParFrame

\* collect() has returned and fewer regions than common neighbours came back.
ReturnStronglyDominated ==
    /\ pc = "par_regions"
    /\ Queued(tasks) \cup Running(tasks) = {}
    /\ some_vertex_strongly_dominates(non_domination_regions, Len(tasks))
    /\ verdict' = Some(TRUE)
    /\ pc' = "par_done"
    /\ UNCHANGED << tasks, full, non_domination_regions >>
    /\ ParFrame

\* collect() has returned every region: the test grades are computed and
\* handed to the second parallel iterator.
StartGrades ==
    /\ pc = "par_regions"
    /\ Queued(tasks) \cup Running(tasks) = {}
    /\ ~some_vertex_strongly_dominates(non_domination_regions, Len(tasks))
    /\ tasks' = [t \in domination_times(adjacency_matrix, tested_edge[1]) |-> "queued"]
    /\ full' = FALSE
    /\ pc' = "par_grades"
    /\ UNCHANGED << non_domination_regions, verdict >>
    /\ ParFrame

\* The closure of all() on one test grade: a grade that is not dominated
\* raises the flag.
CheckGrade ==
    /\ pc = "par_grades"
    /\ \E t \in Running(tasks) :
          /\ tasks' = [tasks EXCEPT ![t] = "done"]
          /\ full' = (full \/ ~critical_value_dominated(non_domination_regions, t))
    /\ UNCHANGED << pc, non_domination_regions, verdict >>
    /\ ParFrame

\* all() returns: true unless some closure returned false.
ReturnAll ==
    /\ pc = "par_grades"
    /\ Queued(tasks) \cup Running(tasks) = {}
    /\ verdict' = Some(~full)
    /\ pc' = "par_done"
    /\ UNCHANGED << tasks, full, non_domination_regions >>
    /\ ParFrame

ParNext ==
    TakeItem \/ DropItem \/ BuildRegion \/ ReturnStronglyDominated \/ StartGrades
        \/ CheckGrade \/ ReturnAll

ParSpec == ParInit /\ [][ParNext]_vars

(***************************************************************************)
(* C29.  The parallel full test equals the sequential one: for every index *)
(* A and edge e, is_filtration_dominated_multithread(A, e) returns what    *)
(* is_filtration_dominated(A, e) returns, under every scheduling of the    *)
(* region builds and of the test-grade checks, also when while_some stops  *)
(* at an empty region before other regions were produced, and when e has   *)
(* no common neighbour.                                                    *)
(***************************************************************************)
C29_ParallelEqualsSequential ==
    pc = "par_done" =>
        verdict = Some(is_filtration_dominated(adjacency_matrix, tested_edge[1]))

\* The parallel test has returned after while_some stopped at an empty
\* region: one region was collected, one was never built.
C29_Witness ==
    /\ pc = "par_done"
    /\ verdict = Some(TRUE)
    /\ \E i \in DOMAIN tasks : tasks[i] = "dropped"
    /\ Len(non_domination_regions) = 1

(***************************************************************************)
(* The drivers under the scheduling of a sequential program: the for loop  *)
(* goes on to its next iteration, and when the list is exhausted the       *)
(* function returns.                                                       *)
(***************************************************************************)
\* ENABLED Iterate: the guard of Iterate; all else in it assigns.
IterateEnabled ==
    /\ pc = "loop"
    /\ idx <= Len(edge_list.edges)
    /\ max_time # None => \E now \in Clock : now >= elapsed /\ ~(now > max_time[1])

\* Weak fairness of Iterate, with ENABLED Iterate written out, and of Return.
FairSpec ==
    /\ Spec
    /\ ([]<>(~IterateEnabled) \/ []<><<Iterate>>_vars)
    /\ WF_vars(Return)

\* The number of delete_edge calls of the running call.
Deleted == Cardinality({ i \in 1 .. Len(decisions) : decisions[i] })

\* What a call without budget has done so far.
OneDecisionPerEdge ==
    (pc \in { "loop", "done" } /\ max_time = None) =>
        /\ last.kind # "timeout"
        /\ Len(decisions) = idx - 1
        /\ Len(remaining_edges) + Deleted = Len(decisions)
        /\ Tested => /\ last.at = Len(decisions)
                     /\ last.edge = edge_list.edges[last.at]
                     /\ decisions[last.at] = (last.kind = "deleted")
        /\ Done => /\ Len(decisions) = Len(arg.edges)
                   /\ Len(result[1].edges) + Deleted = Len(arg.edges)

(***************************************************************************)
(* C30.  Termination without budget: with max_time = None the driver never *)
(* takes the timeout branch, makes exactly one domination decision per     *)
(* edge of the list, in iteration order, and then returns; each decided    *)
(* edge is either deleted from the index or appended to the survivors, so  *)
(* that on return |S| + (number of delete_edge calls) = |E|.               *)
(***************************************************************************)
C30_TerminatesWithoutBudget ==
    /\ []OneDecisionPerEdge
    /\ (pc = "loop" /\ max_time = None) ~> (pc = "done" /\ max_time = None)

\* A call without budget on at least four edges has returned, having deleted
\* some edges and kept others.
C30_Witness ==
    /\ Done /\ max_time = None
    /\ Len(arg.edges) >= 4
    /\ Deleted >= 1
    /\ Len(result[1].edges) >= 1

====
